---- MODULE Spec2Model ----
(***************************************************************************)
(* TCP load balancer: the four scheduling policies of                      *)
(* src/pkg/load_balancer/load_balancer.go, the connection proxy            *)
(* (handleClient) and the listener / graceful-shutdown code (main) of      *)
(* src/cmd/load_balancer/main.go.                                          *)
(*                                                                         *)
(* Strings are sequences of one-character strings, so that strings.Fields  *)
(* is computed and the zero string "" is <<>>.  The unit tests' backends   *)
(* "localhost:5000" .. "localhost:5003" are abbreviated to their last      *)
(* digit.  Times are integer clock ticks; a running mean sum/len is kept   *)
(* as the exact fraction [num, den] and compared by cross-multiplication.  *)
(***************************************************************************)
EXTENDS Integers, Sequences, FiniteSets, TLC

VARIABLES
    policyName,   \* value of the -a flag
    serversFlag,  \* value of the -s flag
    policy,       \* the Policy object (record tagged by kind), [kind |-> "nil"] before construction
    proc,         \* process status: "running", "fatal", "panic", "exited"
    mainpc,       \* position of main
    listener,     \* "none", "open", "closed"
    acceptpc,     \* accept-loop goroutine: "none", "run", "exited" (acceptDone closed)
    activeWG,     \* counter of the global WaitGroup
    spc,          \* per connection: position of its handleClient goroutine
    sbackend,     \* per connection: the backend SelectServer returned
    c2b, b2c,     \* per connection: the two copy goroutines: "idle", "run", "end"
    ioErr,        \* the connection whose session last had an io.Copy return an error,
                  \* 0 if none or once that session's handler has returned
    conn,         \* per connection: the client socket: "none", "open", "closed"
    backendConn,  \* per connection: the handler's backendConn: "nil", "open"
    mu,           \* holder of the policy's mutex, 0 when unlocked
    loc,          \* per connection: locals of the policy call in progress
    now,          \* the clock read by time.Now / time.Since
    \* observers (history variables, never read by the program)
    lateAccept,   \* a connection was accepted after main had received the signal
    nSelect,      \* per connection: SelectServer calls made by the session
    nUpdate,      \* per connection: Update calls made by the session
    updArg,       \* per connection: argument of the session's last Update
    pre,          \* per connection: the policy as it was just before the session's
                  \* SelectServer, until another session calls the policy, this one's
                  \* dial succeeds or it makes its Update
    \* observers of the calls made by the test drivers
    nsel,         \* number of SelectServer calls made on the policy
    nupd,         \* number of Update calls made on the policy
    lastRet,      \* value returned by the last SelectServer call
    selCount,     \* per backend: selections that returned it
    decCount,     \* per backend: Update calls made while its count was > 0
    lastArg,      \* argument of the last Update call, "" after a SelectServer call
    scriptPos,    \* calls of the test script replayed so far, -1 once off the script
    res           \* selections returned while on the test script

vars == <<policyName, serversFlag, policy, proc, mainpc, listener, acceptpc,
          activeWG, spc, sbackend, c2b, b2c, ioErr, conn, backendConn, mu, loc, now,
          lateAccept, nSelect, nUpdate, updArg, pre, nsel, nupd, lastRet, selCount,
          decCount, lastArg, scriptPos, res>>

progVars == <<policyName, serversFlag, proc, mainpc, listener, acceptpc,
              activeWG, spc, sbackend, c2b, b2c, ioErr, conn, backendConn, mu, loc>>
sessObs == <<lateAccept, nSelect, nUpdate, updArg, pre>>

----------------------------------------------------------------------------
\* Bounds of the model
MaxConns == 2        \* connections the environment offers to the listener
MaxCalls == 12       \* calls made by the free test driver
MaxLRTCalls == 8     \* calls made by the free test driver on LeastResponseTime
MaxSleep == 2        \* longest sleep of the scripted test driver
MaxTick == 1         \* largest advance of the clock between two reads of the test driver
MaxTime == 2         \* the clock of the free test driver stops advancing here
MaxProxyTime == 1    \* the clock of the proxy stops advancing here (one tick a read at most)
FifoCap == 2         \* capacity of a startTimes channel (10000 in the source)

\* Program constants
MaxInt == 2147483647 \* int(^uint(0) >> 1) with a 32-bit int

EmptyStr == <<>>
NilPolicy == [kind |-> "nil"]
\* no policy call in progress
NoLocals == [at |-> "out"]

Get(m, k) == IF k \in DOMAIN m THEN m[k] ELSE 0
Put(m, k, v) == [x \in DOMAIN m \cup {k} |-> IF x = k THEN v ELSE m[x]]
Range(s) == {s[i] : i \in 1..Len(s)}
Min2(a, b) == IF a < b THEN a ELSE b

\* servers of the unit tests
servers == << <<"0">>, <<"1">>, <<"2">>, <<"3">> >>

RECURSIVE SumSeq(_)
SumSeq(s) == IF s = <<>> THEN 0 ELSE Head(s) + SumSeq(Tail(s))

----------------------------------------------------------------------------
\* strings.Fields: split around runs of white space
RECURSIVE FieldsFrom(_, _, _, _)
FieldsFrom(s, i, cur, acc) ==
    IF i > Len(s)
    THEN IF cur = <<>> THEN acc ELSE Append(acc, cur)
    ELSE IF s[i] = " "
         THEN FieldsFrom(s, i + 1, <<>>, IF cur = <<>> THEN acc ELSE Append(acc, cur))
         ELSE FieldsFrom(s, i + 1, Append(cur, s[i]), acc)

Fields(s) == FieldsFrom(s, 1, <<>>, <<>>)

----------------------------------------------------------------------------
\* N2One
NewN2One(srv) == [kind |-> "N2One", servers |-> srv]

\* mutant: returns the last server of the pool
N2OneSelectServer_Last(p) ==
    IF Len(p.servers) = 0
    THEN [panic |-> TRUE, policy |-> p, ret |-> EmptyStr]
    ELSE [panic |-> FALSE, policy |-> p, ret |-> p.servers[Len(p.servers)]]

N2OneSelectServer(p) ==
    IF Len(p.servers) = 0
    THEN [panic |-> TRUE, policy |-> p, ret |-> EmptyStr]
    ELSE [panic |-> FALSE, policy |-> p, ret |-> p.servers[1]]

N2OneUpdate(p, server) == p

\* RoundRobin
NewRoundRobin(srv) == [kind |-> "RoundRobin", servers |-> srv, idx |-> 0]

\* mutant: the cursor is advanced without wrapping
RoundRobinSelectServer_NoWrap(p) ==
    IF p.idx >= Len(p.servers)
    THEN [panic |-> TRUE, policy |-> p, ret |-> EmptyStr]
    ELSE [panic |-> FALSE,
          policy |-> [p EXCEPT !.idx = p.idx + 1],
          ret |-> p.servers[p.idx + 1]]

RoundRobinSelectServer(p) ==
    IF p.idx >= Len(p.servers)
    THEN [panic |-> TRUE, policy |-> p, ret |-> EmptyStr]
    ELSE [panic |-> FALSE,
          policy |-> [p EXCEPT !.idx = (p.idx + 1) % Len(p.servers)],
          ret |-> p.servers[p.idx + 1]]

RoundRobinUpdate(p, server) == p

\* LeastConnections
NewLeastConnections(srv) ==
    [kind |-> "LeastConnections", servers |-> srv,
     connections |-> [s \in Range(srv) |-> 0]]

\* mutant: a later server of equal count replaces the selected one
RECURSIVE LCScan_LastWins(_, _, _, _, _)
LCScan_LastWins(srv, conns, i, min, selected) ==
    IF i > Len(srv) THEN selected
    ELSE IF Get(conns, srv[i]) <= min
         THEN LCScan_LastWins(srv, conns, i + 1, Get(conns, srv[i]), srv[i])
         ELSE LCScan_LastWins(srv, conns, i + 1, min, selected)

RECURSIVE LCScan(_, _, _, _, _)
LCScan(srv, conns, i, min, selected) ==
    IF i > Len(srv) THEN selected
    ELSE IF Get(conns, srv[i]) < min
         THEN LCScan(srv, conns, i + 1, Get(conns, srv[i]), srv[i])
         ELSE LCScan(srv, conns, i + 1, min, selected)

\* mutant: the count of the selected server is not incremented
LeastConnectionsSelectServer_NoIncrement(p) ==
    LET selected == LCScan(p.servers, p.connections, 1, MaxInt, EmptyStr)
    IN [panic |-> FALSE, policy |-> p, ret |-> selected]

LeastConnectionsSelectServer(p) ==
    LET selected == LCScan(p.servers, p.connections, 1, MaxInt, EmptyStr)
    IN [panic |-> FALSE,
        policy |-> [p EXCEPT !.connections =
                       Put(p.connections, selected, Get(p.connections, selected) + 1)],
        ret |-> selected]

\* mutant: no decrement
LeastConnectionsUpdate_NoDecrement(p, server) == p

\* mutant: decrement without the count > 0 guard
LeastConnectionsUpdate_Unguarded(p, server) ==
    IF server \in DOMAIN p.connections
    THEN [p EXCEPT !.connections[server] = @ - 1]
    ELSE p

\* mutant: a server that is not in the map is entered in it
LeastConnectionsUpdate_Insert(p, server) ==
    IF Get(p.connections, server) > 0
    THEN [p EXCEPT !.connections[server] = @ - 1]
    ELSE [p EXCEPT !.connections = Put(@, server, 0)]

LeastConnectionsUpdate(p, server) ==
    IF server \in DOMAIN p.connections /\ p.connections[server] > 0
    THEN [p EXCEPT !.connections[server] = @ - 1]
    ELSE p

\* LeastResponseTime
AvgLess(a, b) == a.num * b.den < b.num * a.den
AvgEq(a, b) == a.num * b.den = b.num * a.den
Mean(h) == [num |-> SumSeq(h), den |-> Len(h)]

NewLeastResponseTime(srv) ==
    [kind |-> "LeastResponseTime", servers |-> srv,
     avgTime |-> [s \in Range(srv) |-> [num |-> 0, den |-> 1]],
     startTimes |-> [s \in Range(srv) |-> <<>>],
     pastTimes |-> [s \in Range(srv) |-> <<>>],
     current |-> -1]

\* first loop: the first server whose mean is strictly below all earlier ones
RECURSIVE LRTScan(_, _, _, _)
LRTScan(srv, avg, i, selected) ==
    IF i > Len(srv) THEN selected
    ELSE IF AvgLess(avg[srv[i]], avg[selected])
         THEN LRTScan(srv, avg, i + 1, srv[i])
         ELSE LRTScan(srv, avg, i + 1, selected)

\* mutant: the cursor is put on the server the first loop found
RECURSIVE LRTAdvance_FirstMinimal(_, _, _, _, _)
LRTAdvance_FirstMinimal(srv, avg, selected, cur, left) ==
    (CHOOSE i \in 1 .. Len(srv) :
        srv[i] = selected /\ \A j \in 1 .. (i - 1) : srv[j] # selected) - 1

\* second loop: at most len(servers) steps of the cursor, stopping on a server
\* whose mean equals the minimum
RECURSIVE LRTAdvance(_, _, _, _, _)
LRTAdvance(srv, avg, selected, cur, left) ==
    IF left = 0 THEN cur
    ELSE LET nxt == (cur + 1) % Len(srv)
         IN IF AvgEq(avg[srv[nxt + 1]], avg[selected])
            THEN nxt
            ELSE LRTAdvance(srv, avg, selected, nxt, left - 1)

\* the values the second loop assigns to p.current, the last one being the
\* cursor it leaves
LRTWritten(p) ==
    IF Len(p.servers) = 0 THEN {}
    ELSE LET N == Len(p.servers)
             selected == LRTScan(p.servers, p.avgTime, 1, p.servers[1])
             cur == LRTAdvance(p.servers, p.avgTime, selected, p.current, N)
             k == CHOOSE k \in 1 .. N :
                     /\ (p.current + k) % N = cur
                     /\ \A j \in 1 .. (k - 1) : (p.current + j) % N # cur
         IN {(p.current + j) % N : j \in 1 .. k}

\* mutant: a full channel takes one more entry
Push_NoDrop(ch, t) ==
    Append(ch, t)

\* non-blocking send, dropping the oldest entry of a full channel
Push(ch, t) ==
    IF Len(ch) < FifoCap THEN Append(ch, t) ELSE Append(Tail(ch), t)

LeastResponseTimeSelectServer(p, t) ==
    IF Len(p.servers) = 0
    THEN [panic |-> TRUE, policy |-> p, ret |-> EmptyStr]
    ELSE LET selected == LRTScan(p.servers, p.avgTime, 1, p.servers[1])
             cur == LRTAdvance(p.servers, p.avgTime, selected, p.current, Len(p.servers))
             s == p.servers[cur + 1]
         IN [panic |-> FALSE,
             policy |-> [p EXCEPT !.current = cur,
                                  !.startTimes[s] = Push(@, t)],
             ret |-> s]

\* mutant: the mean is not recomputed
LeastResponseTimeUpdate_NoMean(p, server, t) ==
    IF server \notin DOMAIN p.startTimes THEN p
    ELSE IF p.startTimes[server] = <<>> THEN p
    ELSE LET start == Head(p.startTimes[server])
             past == Append(p.pastTimes[server], t - start)
         IN [p EXCEPT !.startTimes[server] = Tail(@),
                      !.pastTimes[server] = past]

\* mutant: the newest start time is taken
LeastResponseTimeUpdate_Newest(p, server, t) ==
    IF server \notin DOMAIN p.startTimes THEN p
    ELSE IF p.startTimes[server] = <<>> THEN p
    ELSE LET start == p.startTimes[server][Len(p.startTimes[server])]
             past == Append(p.pastTimes[server], t - start)
         IN [p EXCEPT !.startTimes[server] = SubSeq(@, 1, Len(@) - 1),
                      !.pastTimes[server] = past,
                      !.avgTime[server] = Mean(past)]

LeastResponseTimeUpdate(p, server, t) ==
    IF server \notin DOMAIN p.startTimes THEN p
    ELSE IF p.startTimes[server] = <<>> THEN p
    ELSE LET start == Head(p.startTimes[server])
             past == Append(p.pastTimes[server], t - start)
         IN [p EXCEPT !.startTimes[server] = Tail(@),
                      !.pastTimes[server] = past,
                      !.avgTime[server] = Mean(past)]

\* the Policy interface: dynamic dispatch on the concrete type
SelectServer(p, t) ==
    CASE p.kind = "N2One" -> N2OneSelectServer(p)
      [] p.kind = "RoundRobin" -> RoundRobinSelectServer(p)
      [] p.kind = "LeastConnections" -> LeastConnectionsSelectServer(p)
      [] p.kind = "LeastResponseTime" -> LeastResponseTimeSelectServer(p, t)

Update(p, server, t) ==
    CASE p.kind = "N2One" -> N2OneUpdate(p, server)
      [] p.kind = "RoundRobin" -> RoundRobinUpdate(p, server)
      [] p.kind = "LeastConnections" -> LeastConnectionsUpdate(p, server)
      [] p.kind = "LeastResponseTime" -> LeastResponseTimeUpdate(p, server, t)

----------------------------------------------------------------------------
\* Observers of the policy calls

\* times a call may read from the clock (only LeastResponseTime reads it)
ClockReads(p, tick, last) ==
    IF p.kind = "LeastResponseTime" /\ now < last
    THEN now .. Min2(now + tick, last)
    ELSE {now}

\* the unit tests' script: eight selections, an Update after the 5th..8th,
\* with the servers releaseSocket yields
releaseSocket == << <<"0">>, <<"3">>, <<"2">> >>
Sel == [op |-> "SelectServer", arg |-> EmptyStr]
Upd(s) == [op |-> "Update", arg |-> s]
RECURSIVE TestLoop(_, _)
TestLoop(i, n) ==
    IF i >= 8 THEN <<>>
    ELSE IF i > 3
         THEN <<Sel, Upd(releaseSocket[(n % Len(releaseSocket)) + 1])>> \o TestLoop(i + 1, n + 1)
         ELSE <<Sel>> \o TestLoop(i + 1, n)
TestScript == TestLoop(0, 0)

OnScript(call) ==
    /\ scriptPos >= 0
    /\ scriptPos < Len(TestScript)
    /\ TestScript[scriptPos + 1] = call

ObserveSelect(r) ==
    /\ nsel' = nsel + 1
    /\ nupd' = nupd
    /\ lastRet' = r.ret
    /\ selCount' = Put(selCount, r.ret, Get(selCount, r.ret) + 1)
    /\ decCount' = decCount
    /\ lastArg' = EmptyStr
    /\ scriptPos' = IF OnScript(Sel) THEN scriptPos + 1 ELSE -1
    /\ res' = IF OnScript(Sel) THEN Append(res, r.ret) ELSE <<>>

ObserveUpdate(p, server) ==
    /\ nsel' = nsel
    /\ nupd' = nupd + 1
    /\ lastRet' = lastRet
    /\ selCount' = selCount
    /\ decCount' = IF /\ p.kind = "LeastConnections"
                      /\ Get(p.connections, server) > 0
                   THEN Put(decCount, server, Get(decCount, server) + 1)
                   ELSE decCount
    /\ lastArg' = server
    /\ scriptPos' = IF OnScript(Upd(server)) THEN scriptPos + 1 ELSE -1
    /\ res' = IF OnScript(Upd(server)) THEN res ELSE <<>>

policyObs == <<nsel, nupd, lastRet, selCount, decCount, lastArg, scriptPos, res>>

----------------------------------------------------------------------------
\* The program: main, the accept loop and one handleClient per connection

Conns == 1 .. MaxConns
PolicyNames == {"N2One", "RoundRobin", "LeastConnections", "LeastResponseTime"}
\* values given to -a: the four policies and an unknown name
PolicyFlags == PolicyNames \cup {"Random"}
\* values given to -s: missing or empty, white space only, two backends
ServersFlags == {<<>>, <<" ">>, <<" ", "0", " ", " ", "1">>}

Running == proc = "running"

\* main up to the start of the accept goroutine
MainStartup ==
    /\ Running /\ mainpc = "start"
    /\ IF Len(serversFlag) = 0 \/ policyName \notin PolicyNames
       THEN /\ proc' = "fatal"
            /\ UNCHANGED <<policy, listener, acceptpc, mainpc>>
       ELSE /\ policy' = (CASE policyName = "N2One" -> NewN2One(Fields(serversFlag))
                            [] policyName = "RoundRobin" -> NewRoundRobin(Fields(serversFlag))
                            [] policyName = "LeastConnections" -> NewLeastConnections(Fields(serversFlag))
                            [] policyName = "LeastResponseTime" -> NewLeastResponseTime(Fields(serversFlag)))
            /\ \E listenOk \in BOOLEAN :
                  IF listenOk
                  THEN /\ listener' = "open"
                       /\ acceptpc' = "run"
                       /\ mainpc' = "waitsig"
                       /\ proc' = proc
                  ELSE /\ proc' = "fatal"
                       /\ UNCHANGED <<listener, acceptpc, mainpc>>
    /\ UNCHANGED <<policyName, serversFlag, activeWG, spc, sbackend,
                   c2b, b2c, ioErr, now>>
    /\ UNCHANGED sessObs /\ UNCHANGED policyObs /\ UNCHANGED <<conn, backendConn, mu, loc>>

\* <-sig: SIGINT or SIGTERM has been delivered to the sig channel and main
\* receives it (no other goroutine reads the channel, so the delivery and the
\* receipt are one step)
MainRecvSig ==
    /\ Running /\ mainpc = "waitsig"
    /\ mainpc' = "closing"
    /\ UNCHANGED <<policyName, serversFlag, policy, proc, listener,
                   acceptpc, activeWG, spc, sbackend, c2b, b2c, ioErr, now>>
    /\ UNCHANGED sessObs /\ UNCHANGED policyObs /\ UNCHANGED <<conn, backendConn, mu, loc>>

\* l.Close()
MainCloseListener ==
    /\ Running /\ mainpc = "closing"
    /\ listener' = "closed"
    /\ mainpc' = "waitaccept"
    /\ UNCHANGED <<policyName, serversFlag, policy, proc, acceptpc, activeWG, spc, sbackend, c2b, b2c, ioErr, now>>
    /\ UNCHANGED sessObs /\ UNCHANGED policyObs /\ UNCHANGED <<conn, backendConn, mu, loc>>

\* mutant: main does not wait for the accept loop
MainAcceptDone_NoWait ==
    /\ Running /\ mainpc = "waitaccept"
    /\ mainpc' = "waitwg"
    /\ UNCHANGED <<policyName, serversFlag, policy, proc, listener, acceptpc, activeWG, spc, sbackend, c2b, b2c, ioErr, now>>
    /\ UNCHANGED sessObs /\ UNCHANGED policyObs /\ UNCHANGED <<conn, backendConn, mu, loc>>

\* <-acceptDone
MainAcceptDone ==
    /\ Running /\ mainpc = "waitaccept" /\ acceptpc = "exited"
    /\ mainpc' = "waitwg"
    /\ UNCHANGED <<policyName, serversFlag, policy, proc, listener, acceptpc, activeWG, spc, sbackend, c2b, b2c, ioErr, now>>
    /\ UNCHANGED sessObs /\ UNCHANGED policyObs /\ UNCHANGED <<conn, backendConn, mu, loc>>

\* activeWG.Wait(), "Shutdown complete.", return from main: the process exits
MainWait ==
    /\ Running /\ mainpc = "waitwg" /\ activeWG = 0
    /\ mainpc' = "stopped"
    /\ proc' = "exited"
    /\ UNCHANGED <<policyName, serversFlag, policy, listener, acceptpc, activeWG, spc, sbackend, c2b, b2c, ioErr, now>>
    /\ UNCHANGED sessObs /\ UNCHANGED policyObs /\ UNCHANGED <<conn, backendConn, mu, loc>>

\* mutant: a connection is accepted whatever the state of the listener
Accept_Closed(c) ==
    /\ Running /\ acceptpc = "run"
    /\ spc[c] = "none"
    /\ \A d \in Conns : d < c => spc[d] # "none"
    /\ spc' = [spc EXCEPT ![c] = "spawned"]
    /\ conn' = [conn EXCEPT ![c] = "open"]
    /\ lateAccept' = (lateAccept \/ mainpc # "waitsig")
    /\ UNCHANGED <<policyName, serversFlag, policy, proc, mainpc, listener,
                   acceptpc, activeWG, sbackend, c2b, b2c, ioErr, now>>
    /\ UNCHANGED <<nSelect, nUpdate, updArg, pre>> /\ UNCHANGED policyObs /\ UNCHANGED <<backendConn, mu, loc>>

\* l.Accept() returns a connection; go handleClient(conn, policy)
Accept(c) ==
    /\ Running /\ acceptpc = "run" /\ listener = "open"
    /\ spc[c] = "none"
    /\ \A d \in Conns : d < c => spc[d] # "none"
    /\ spc' = [spc EXCEPT ![c] = "spawned"]
    /\ conn' = [conn EXCEPT ![c] = "open"]
    /\ lateAccept' = (lateAccept \/ mainpc # "waitsig")
    /\ UNCHANGED <<policyName, serversFlag, policy, proc, mainpc, listener,
                   acceptpc, activeWG, sbackend, c2b, b2c, ioErr, now>>
    /\ UNCHANGED <<nSelect, nUpdate, updArg, pre>> /\ UNCHANGED policyObs /\ UNCHANGED <<backendConn, mu, loc>>

\* l.Accept() returns an error because the listener was closed
AcceptClosed ==
    /\ Running /\ acceptpc = "run" /\ listener = "closed"
    /\ acceptpc' = "exited"
    /\ UNCHANGED <<policyName, serversFlag, policy, proc, mainpc, listener,
                   activeWG, spc, sbackend, c2b, b2c, ioErr, now>>
    /\ UNCHANGED sessObs /\ UNCHANGED policyObs /\ UNCHANGED <<conn, backendConn, mu, loc>>

\* mutant: an error of l.Accept() ends the process
AcceptError_Fatal ==
    /\ Running /\ acceptpc = "run" /\ listener = "open"
    /\ acceptpc' = "exited"
    /\ proc' = "fatal"
    /\ UNCHANGED <<policyName, serversFlag, policy, mainpc, listener,
                   activeWG, spc, sbackend, c2b, b2c, ioErr, now>>
    /\ UNCHANGED sessObs /\ UNCHANGED policyObs /\ UNCHANGED <<conn, backendConn, mu, loc>>

\* l.Accept() returns an error while the listener is open
AcceptError ==
    /\ Running /\ acceptpc = "run" /\ listener = "open"
    /\ acceptpc' = "exited"
    /\ UNCHANGED <<policyName, serversFlag, policy, proc, mainpc, listener,
                   activeWG, spc, sbackend, c2b, b2c, ioErr, now>>
    /\ UNCHANGED sessObs /\ UNCHANGED policyObs /\ UNCHANGED <<conn, backendConn, mu, loc>>

\* handleClient: defer conn.Close(); activeWG.Add(1); defer activeWG.Done().
\* The Add is made by the spawned goroutine, unordered with main's Wait.
HandleAdd(c) ==
    /\ Running /\ spc[c] = "spawned"
    /\ activeWG' = activeWG + 1
    /\ spc' = [spc EXCEPT ![c] = "select"]
    /\ UNCHANGED <<policyName, serversFlag, policy, proc, mainpc, listener,
                   acceptpc, sbackend, c2b, b2c, ioErr, now>>
    /\ UNCHANGED sessObs /\ UNCHANGED policyObs /\ UNCHANGED <<conn, backendConn, mu, loc>>

\* backend := policy.SelectServer(): the call up to the release of the mutex.
\* N2One, RoundRobin and LeastConnections have their return value by then.
\* LeastResponseTime reads p.current again after p.mu.Unlock(), without the
\* mutex: the sessions that are between their Unlock and that read (at
\* "selret") may make it while this call's second loop assigns p.current and
\* then return any of the values it assigns.
HandleSelect(c) ==
    /\ Running /\ spc[c] = "select"
    /\ \E t \in ClockReads(policy, 1, MaxProxyTime) :
          LET r == SelectServer(policy, t)
          IN /\ now' = t
             /\ nSelect' = [nSelect EXCEPT ![c] = @ + 1]
             /\ IF r.panic
                THEN /\ proc' = "panic"
                     /\ UNCHANGED <<policy, spc, sbackend, pre>>
                ELSE /\ policy' = r.policy
                     /\ IF policy.kind = "LeastResponseTime"
                        THEN \E readers \in SUBSET {d \in Conns : d # c /\ spc[d] = "selret"} :
                             \E k \in [readers -> LRTWritten(policy)] :
                                /\ spc' = [d \in Conns |->
                                              IF d = c THEN "selret"
                                              ELSE IF d \in readers THEN "dial"
                                              ELSE spc[d]]
                                /\ sbackend' = [d \in Conns |->
                                                  IF d \in readers
                                                  THEN policy.servers[k[d] + 1]
                                                  ELSE sbackend[d]]
                        ELSE /\ spc' = [spc EXCEPT ![c] = "dial"]
                             /\ sbackend' = [sbackend EXCEPT ![c] = r.ret]
                     /\ pre' = [d \in Conns |-> IF d = c THEN policy ELSE NilPolicy]
                     /\ proc' = proc
    /\ UNCHANGED <<policyName, serversFlag, mainpc, listener, acceptpc, activeWG, c2b, b2c, ioErr, lateAccept, nUpdate, updArg>>
    /\ UNCHANGED policyObs /\ UNCHANGED <<conn, backendConn, mu, loc>>

\* return p.servers[p.current] of LeastResponseTime.SelectServer, made while
\* no other session is inside SelectServer: the cursor as it is by then
HandleSelectReturn(c) ==
    /\ Running /\ spc[c] = "selret"
    /\ sbackend' = [sbackend EXCEPT ![c] = policy.servers[policy.current + 1]]
    /\ spc' = [spc EXCEPT ![c] = "dial"]
    /\ UNCHANGED <<policyName, serversFlag, policy, proc, mainpc, listener,
                   acceptpc, activeWG, c2b, b2c, ioErr, now>>
    /\ UNCHANGED sessObs /\ UNCHANGED policyObs /\ UNCHANGED <<conn, backendConn, mu, loc>>

\* net.Dial succeeds; the two copy goroutines are started
DialOK(c) ==
    /\ Running /\ spc[c] = "dial"
    /\ sbackend[c] # EmptyStr
    /\ spc' = [spc EXCEPT ![c] = "proxy"]
    /\ backendConn' = [backendConn EXCEPT ![c] = "open"]
    /\ c2b' = [c2b EXCEPT ![c] = "run"]
    /\ b2c' = [b2c EXCEPT ![c] = "run"]
    /\ pre' = [pre EXCEPT ![c] = NilPolicy]
    /\ UNCHANGED <<policyName, serversFlag, policy, proc, mainpc, listener,
                   acceptpc, activeWG, sbackend, ioErr, now>>
    /\ UNCHANGED <<lateAccept, nSelect, nUpdate, updArg>> /\ UNCHANGED policyObs /\ UNCHANGED <<conn, mu, loc>>

\* mutant: the dial-failure path returns without calling Update
DialFail_NoUpdate(c) ==
    /\ Running /\ spc[c] = "dial"
    /\ spc' = [spc EXCEPT ![c] = "finish"]
    /\ UNCHANGED <<policyName, serversFlag, policy, proc, mainpc, listener,
                   acceptpc, activeWG, sbackend, c2b, b2c, ioErr, now>>
    /\ UNCHANGED sessObs /\ UNCHANGED policyObs /\ UNCHANGED <<conn, backendConn, mu, loc>>

\* mutant: after a failed dial the session selects again
DialFail_Retry(c) ==
    /\ Running /\ spc[c] = "dial"
    /\ \E t \in ClockReads(policy, 1, MaxProxyTime) :
          /\ now' = t
          /\ policy' = Update(policy, sbackend[c], t)
    /\ spc' = [spc EXCEPT ![c] = "select"]
    /\ nUpdate' = [nUpdate EXCEPT ![c] = @ + 1]
    /\ updArg' = [updArg EXCEPT ![c] = sbackend[c]]
    /\ pre' = [d \in Conns |-> NilPolicy]
    /\ UNCHANGED <<policyName, serversFlag, proc, mainpc, listener, acceptpc, activeWG, sbackend, c2b, b2c, ioErr, lateAccept, nSelect>>
    /\ UNCHANGED policyObs /\ UNCHANGED <<conn, backendConn, mu, loc>>

\* net.Dial fails: the error is logged and policy.Update(backend) is called
DialFail(c) ==
    /\ Running /\ spc[c] = "dial"
    /\ \E t \in ClockReads(policy, 1, MaxProxyTime) :
          /\ now' = t
          /\ policy' = Update(policy, sbackend[c], t)
    /\ spc' = [spc EXCEPT ![c] = "finish"]
    /\ nUpdate' = [nUpdate EXCEPT ![c] = @ + 1]
    /\ updArg' = [updArg EXCEPT ![c] = sbackend[c]]
    /\ pre' = [d \in Conns |-> NilPolicy]
    /\ UNCHANGED <<policyName, serversFlag, proc, mainpc, listener, acceptpc, activeWG, sbackend, c2b, b2c, ioErr, lateAccept, nSelect>>
    /\ UNCHANGED policyObs /\ UNCHANGED <<conn, backendConn, mu, loc>>

\* io.Copy(backendConn, conn) returns nil at end of stream, or an error that is logged
CopyClientToBackend(c) ==
    /\ Running /\ spc[c] = "proxy" /\ c2b[c] = "run"
    /\ c2b' = [c2b EXCEPT ![c] = "end"]
    /\ \E err \in BOOLEAN : ioErr' = IF err THEN c ELSE ioErr
    /\ UNCHANGED <<policyName, serversFlag, policy, proc, mainpc, listener,
                   acceptpc, activeWG, spc, sbackend, b2c, now>>
    /\ UNCHANGED sessObs /\ UNCHANGED policyObs /\ UNCHANGED <<conn, backendConn, mu, loc>>

\* io.Copy(conn, backendConn) returns nil at end of stream, or an error that is logged
CopyBackendToClient(c) ==
    /\ Running /\ spc[c] = "proxy" /\ b2c[c] = "run"
    /\ b2c' = [b2c EXCEPT ![c] = "end"]
    /\ \E err \in BOOLEAN : ioErr' = IF err THEN c ELSE ioErr
    /\ UNCHANGED <<policyName, serversFlag, policy, proc, mainpc, listener,
                   acceptpc, activeWG, spc, sbackend, c2b, now>>
    /\ UNCHANGED sessObs /\ UNCHANGED policyObs /\ UNCHANGED <<conn, backendConn, mu, loc>>

\* mutant: Update is called once the client-to-backend copy has ended
HandleUpdate_Early(c) ==
    /\ Running
    /\ spc[c] = "proxy" /\ c2b[c] = "end"
    /\ \E t \in ClockReads(policy, 1, MaxProxyTime) :
          /\ now' = t
          /\ policy' = Update(policy, sbackend[c], t)
    /\ spc' = [spc EXCEPT ![c] = "finish"]
    /\ nUpdate' = [nUpdate EXCEPT ![c] = @ + 1]
    /\ updArg' = [updArg EXCEPT ![c] = sbackend[c]]
    /\ pre' = [d \in Conns |-> NilPolicy]
    /\ UNCHANGED <<policyName, serversFlag, proc, mainpc, listener, acceptpc, activeWG, sbackend, c2b, b2c, ioErr, lateAccept, nSelect>>
    /\ UNCHANGED policyObs /\ UNCHANGED <<conn, backendConn, mu, loc>>

\* mutant: Update is called with the first server of the pool
HandleUpdate_FirstServer(c) ==
    /\ Running
    /\ spc[c] = "proxy" /\ c2b[c] = "end" /\ b2c[c] = "end"
    /\ \E t \in ClockReads(policy, 1, MaxProxyTime) :
          /\ now' = t
          /\ policy' = Update(policy, policy.servers[1], t)
    /\ spc' = [spc EXCEPT ![c] = "finish"]
    /\ nUpdate' = [nUpdate EXCEPT ![c] = @ + 1]
    /\ updArg' = [updArg EXCEPT ![c] = policy.servers[1]]
    /\ pre' = [d \in Conns |-> NilPolicy]
    /\ UNCHANGED <<policyName, serversFlag, proc, mainpc, listener, acceptpc,
                   activeWG, sbackend, c2b, b2c, ioErr, lateAccept, nSelect>>
    /\ UNCHANGED policyObs /\ UNCHANGED <<conn, backendConn, mu, loc>>

\* wg.Wait() returns and policy.Update(backend) is called
HandleUpdate(c) ==
    /\ Running
    /\ spc[c] = "proxy" /\ c2b[c] = "end" /\ b2c[c] = "end"
    /\ \E t \in ClockReads(policy, 1, MaxProxyTime) :
          /\ now' = t
          /\ policy' = Update(policy, sbackend[c], t)
    /\ spc' = [spc EXCEPT ![c] = "finish"]
    /\ nUpdate' = [nUpdate EXCEPT ![c] = @ + 1]
    /\ updArg' = [updArg EXCEPT ![c] = sbackend[c]]
    /\ pre' = [d \in Conns |-> NilPolicy]
    /\ UNCHANGED <<policyName, serversFlag, proc, mainpc, listener, acceptpc, activeWG, sbackend, c2b, b2c, ioErr, lateAccept, nSelect>>
    /\ UNCHANGED policyObs /\ UNCHANGED <<conn, backendConn, mu, loc>>

\* return: the deferred backendConn.Close(), activeWG.Done() and conn.Close();
\* the goroutine and its locals are gone
HandleReturn(c) ==
    /\ Running /\ spc[c] = "finish"
    /\ activeWG' = activeWG - 1
    /\ spc' = [spc EXCEPT ![c] = "done"]
    /\ sbackend' = [sbackend EXCEPT ![c] = EmptyStr]
    /\ c2b' = [c2b EXCEPT ![c] = "idle"]
    /\ b2c' = [b2c EXCEPT ![c] = "idle"]
    /\ ioErr' = IF ioErr = c THEN 0 ELSE ioErr
    /\ conn' = [conn EXCEPT ![c] = "closed"]
    /\ backendConn' = [backendConn EXCEPT ![c] = "nil"]
    /\ updArg' = [updArg EXCEPT ![c] = EmptyStr]
    /\ UNCHANGED <<policyName, serversFlag, policy, proc, mainpc, listener,
                   acceptpc, now, lateAccept, nSelect, nUpdate, pre>>
    /\ UNCHANGED policyObs /\ UNCHANGED <<mu, loc>>

Init ==
    /\ policyName \in PolicyFlags
    /\ serversFlag \in ServersFlags
    /\ policy = NilPolicy
    /\ proc = "running"
    /\ mainpc = "start"
    /\ listener = "none"
    /\ acceptpc = "none"
    /\ activeWG = 0
    /\ spc = [c \in Conns |-> "none"]
    /\ sbackend = [c \in Conns |-> EmptyStr]
    /\ c2b = [c \in Conns |-> "idle"]
    /\ b2c = [c \in Conns |-> "idle"]
    /\ ioErr = 0
    /\ conn = [c \in Conns |-> "none"]
    /\ backendConn = [c \in Conns |-> "nil"]
    /\ mu = 0
    /\ loc = [c \in Conns |-> NoLocals]
    /\ now = 0
    /\ lateAccept = FALSE
    /\ nSelect = [c \in Conns |-> 0]
    /\ nUpdate = [c \in Conns |-> 0]
    /\ updArg = [c \in Conns |-> EmptyStr]
    /\ pre = [c \in Conns |-> NilPolicy]
    /\ nsel = 0
    /\ nupd = 0
    /\ lastRet = EmptyStr
    /\ selCount = <<>>
    /\ decCount = <<>>
    /\ lastArg = EmptyStr
    /\ scriptPos = -1
    /\ res = <<>>

Next ==
    \/ MainStartup
    \/ MainRecvSig
    \/ MainCloseListener
    \/ MainAcceptDone
    \/ MainWait
    \/ \E c \in Conns : Accept(c)
    \/ AcceptClosed
    \/ AcceptError
    \/ \E c \in Conns : HandleAdd(c)
    \/ \E c \in Conns : HandleSelect(c)
    \/ \E c \in Conns : HandleSelectReturn(c)
    \/ \E c \in Conns : DialOK(c)
    \/ \E c \in Conns : DialFail(c)
    \/ \E c \in Conns : CopyClientToBackend(c)
    \/ \E c \in Conns : CopyBackendToClient(c)
    \/ \E c \in Conns : HandleUpdate(c)
    \/ \E c \in Conns : HandleReturn(c)

Spec == Init /\ [][Next]_vars

\* The program under fair scheduling: a goroutine that can take its next step
\* eventually takes it; every dial returns and every io.Copy ends
Fairness ==
    /\ WF_vars(MainStartup)
    /\ WF_vars(MainCloseListener)
    /\ WF_vars(MainAcceptDone)
    /\ WF_vars(MainWait)
    /\ WF_vars(AcceptClosed)
    /\ \A c \in Conns :
          /\ WF_vars(HandleAdd(c))
          /\ WF_vars(HandleSelect(c))
          /\ WF_vars(HandleSelectReturn(c))
          /\ WF_vars(DialOK(c) \/ DialFail(c))
          /\ WF_vars(CopyClientToBackend(c))
          /\ WF_vars(CopyBackendToClient(c))
          /\ WF_vars(HandleUpdate(c))
          /\ WF_vars(HandleReturn(c))

SpecLive == Spec /\ Fairness

----------------------------------------------------------------------------
\* The unit tests as a driver: serialized calls on a freshly built policy

\* pools: the prefixes of the tests' servers, and one naming a backend twice
Pools == {SubSeq(servers, 1, n) : n \in 1 .. Len(servers)} \cup {<< <<"0">>, <<"0">>, <<"1">> >>}
\* arguments given to Update: the tests' servers and one that is in no pool
UpdateArgs == Range(servers) \cup {<<"9">>}

CallBound(p) == IF p.kind = "LeastResponseTime" THEN MaxLRTCalls ELSE MaxCalls

TestInit(policies) ==
    /\ policy \in policies
    /\ policyName = policy.kind
    /\ serversFlag = <<>>
    /\ proc = "test"
    /\ mainpc = "test"
    /\ listener = "none"
    /\ acceptpc = "none"
    /\ activeWG = 0
    /\ spc = [c \in Conns |-> "none"]
    /\ sbackend = [c \in Conns |-> EmptyStr]
    /\ c2b = [c \in Conns |-> "idle"]
    /\ b2c = [c \in Conns |-> "idle"]
    /\ ioErr = 0
    /\ conn = [c \in Conns |-> "none"]
    /\ backendConn = [c \in Conns |-> "nil"]
    /\ mu = 0
    /\ loc = [c \in Conns |-> NoLocals]
    /\ now = 0
    /\ lateAccept = FALSE
    /\ nSelect = [c \in Conns |-> 0]
    /\ nUpdate = [c \in Conns |-> 0]
    /\ updArg = [c \in Conns |-> EmptyStr]
    /\ pre = [c \in Conns |-> NilPolicy]
    /\ nsel = 0
    /\ nupd = 0
    /\ lastRet = EmptyStr
    /\ selCount = <<>>
    /\ decCount = <<>>
    /\ lastArg = EmptyStr
    /\ scriptPos = 0
    /\ res = <<>>

\* res = append(res, p.SelectServer()), the clock reading t
CallSelect(t) ==
    LET r == SelectServer(policy, t)
    IN /\ now' = t
       /\ policy' = r.policy
       /\ ObserveSelect(r)
       /\ UNCHANGED progVars /\ UNCHANGED sessObs

\* p.Update(server), the clock reading t
CallUpdate(server, t) ==
    /\ now' = t
    /\ policy' = Update(policy, server, t)
    /\ ObserveUpdate(policy, server)
    /\ UNCHANGED progVars /\ UNCHANGED sessObs

TestSelect ==
    /\ proc = "test"
    /\ nsel + nupd < CallBound(policy)
    /\ \E t \in ClockReads(policy, MaxTick, MaxTime) : CallSelect(t)

TestUpdate(server) ==
    /\ proc = "test"
    /\ nsel + nupd < CallBound(policy)
    /\ \E t \in ClockReads(policy, MaxTick, MaxTime) : CallUpdate(server, t)

InitPolicy ==
    TestInit({NewN2One(pool) : pool \in Pools}
             \cup {NewRoundRobin(pool) : pool \in Pools}
             \cup {NewLeastConnections(pool) : pool \in Pools}
             \cup {NewLeastResponseTime(pool) : pool \in Pools})

NextPolicy ==
    \/ TestSelect
    \/ \E server \in UpdateArgs : TestUpdate(server)

SpecPolicy == InitPolicy /\ [][NextPolicy]_vars

\* The scripted tests (TestRoundRobinUpdate, TestLeastConnectionsUpdate,
\* TestLeastResponseTimeUpdate): the calls of the loop in order, time passing
\* between iterations (time.Sleep) and possibly between a selection and the
\* Update of the same iteration
ScenarioSelect ==
    /\ proc = "test"
    /\ OnScript(Sel)
    /\ \E d \in (IF scriptPos = 0 THEN 0 ELSE 1) .. MaxSleep : CallSelect(now + d)

ScenarioUpdate ==
    /\ proc = "test"
    /\ \E server \in Range(servers) :
          /\ OnScript(Upd(server))
          /\ \E d \in 0 .. 1 : CallUpdate(server, now + d)

InitScenario ==
    TestInit({NewN2One(servers), NewRoundRobin(servers),
              NewLeastConnections(servers), NewLeastResponseTime(servers)})

NextScenario ==
    \/ ScenarioSelect
    \/ ScenarioUpdate

SpecScenario == InitScenario /\ [][NextScenario]_vars

----------------------------------------------------------------------------
\* The policy calls of the sessions statement by statement, with the mutex:
\* MaxConns sessions whose goroutines have started, on a policy built over a
\* pool of the unit tests; dial, the copies and the return are those of Spec.

HasMutex(p) == p.kind # "N2One"
\* sessions whose goroutine holds the mutex according to its position
InCriticalSection == {c \in Conns : loc[c].at \notin {"out", "unlocked"}}

lockUnchanged == <<policyName, serversFlag, proc, mainpc, listener, acceptpc,
                   activeWG, c2b, b2c, ioErr, conn, backendConn, lateAccept, updArg>>

\* N2One.SelectServer: no mutex, return p.servers[0]
N2OneSelect(c) ==
    /\ Running /\ spc[c] = "select" /\ policy.kind = "N2One"
    /\ IF Len(policy.servers) = 0
       THEN proc' = "panic" /\ UNCHANGED <<spc, sbackend, nSelect>>
       ELSE /\ sbackend' = [sbackend EXCEPT ![c] = policy.servers[1]]
            /\ spc' = [spc EXCEPT ![c] = "dial"]
            /\ nSelect' = [nSelect EXCEPT ![c] = @ + 1]
            /\ proc' = proc
    /\ UNCHANGED <<policyName, serversFlag, policy, mainpc, listener, acceptpc,
                   activeWG, c2b, b2c, ioErr, conn, backendConn, mu, loc, now,
                   lateAccept, nUpdate, updArg, pre>>
    /\ UNCHANGED policyObs

\* p.mu.Lock() at the head of SelectServer
LockSelect(c) ==
    /\ Running /\ spc[c] = "select" /\ HasMutex(policy)
    /\ loc[c].at = "out"
    /\ mu = 0
    /\ mu' = c
    /\ loc' = [loc EXCEPT ![c] = [at |-> "locked"]]
    /\ nSelect' = [nSelect EXCEPT ![c] = @ + 1]
    /\ pre' = [pre EXCEPT ![c] = policy]
    /\ UNCHANGED lockUnchanged
    /\ UNCHANGED <<policy, spc, sbackend, now, nUpdate>>
    /\ UNCHANGED policyObs

\* RoundRobin: s := p.servers[p.idx]
RoundRobinRead(c) ==
    /\ Running /\ policy.kind = "RoundRobin" /\ loc[c].at = "locked" /\ spc[c] = "select"
    /\ IF policy.idx >= Len(policy.servers)
       THEN proc' = "panic" /\ loc' = loc
       ELSE /\ loc' = [loc EXCEPT ![c] = [at |-> "read", selected |-> policy.servers[policy.idx + 1]]]
            /\ proc' = proc
    /\ UNCHANGED <<policyName, serversFlag, policy, mainpc, listener, acceptpc,
                   activeWG, spc, sbackend, c2b, b2c, ioErr, conn, backendConn, mu, now>>
    /\ UNCHANGED sessObs /\ UNCHANGED policyObs

\* RoundRobin: p.idx = (p.idx + 1) % len(p.servers)
RoundRobinAdvance(c) ==
    /\ Running /\ policy.kind = "RoundRobin" /\ loc[c].at = "read"
    /\ policy' = [policy EXCEPT !.idx = (policy.idx + 1) % Len(policy.servers)]
    /\ loc' = [loc EXCEPT ![c].at = "return"]
    /\ UNCHANGED lockUnchanged
    /\ UNCHANGED <<spc, sbackend, mu, now, nSelect, nUpdate, pre>>
    /\ UNCHANGED policyObs

\* LeastConnections: the loop that chooses the minimum
LeastConnectionsScan(c) ==
    /\ Running /\ policy.kind = "LeastConnections" /\ loc[c].at = "locked" /\ spc[c] = "select"
    /\ loc' = [loc EXCEPT ![c] = [at |-> "read",
                 selected |-> LCScan(policy.servers, policy.connections, 1, MaxInt, EmptyStr)]]
    /\ UNCHANGED lockUnchanged
    /\ UNCHANGED <<policy, spc, sbackend, mu, now, nSelect, nUpdate, pre>>
    /\ UNCHANGED policyObs

\* LeastConnections: p.connections[selected]++
LeastConnectionsIncrement(c) ==
    /\ Running /\ policy.kind = "LeastConnections" /\ loc[c].at = "read"
    /\ policy' = [policy EXCEPT !.connections =
                     Put(@, loc[c].selected, Get(@, loc[c].selected) + 1)]
    /\ loc' = [loc EXCEPT ![c].at = "return"]
    /\ UNCHANGED lockUnchanged
    /\ UNCHANGED <<spc, sbackend, mu, now, nSelect, nUpdate, pre>>
    /\ UNCHANGED policyObs

\* RoundRobin, LeastConnections: return of the local, the deferred Unlock
UnlockSelect(c) ==
    /\ Running /\ loc[c].at = "return"
    /\ mu' = 0
    /\ sbackend' = [sbackend EXCEPT ![c] = loc[c].selected]
    /\ spc' = [spc EXCEPT ![c] = "dial"]
    /\ loc' = [loc EXCEPT ![c] = NoLocals]
    /\ UNCHANGED lockUnchanged
    /\ UNCHANGED <<policy, now, nSelect, nUpdate, pre>>
    /\ UNCHANGED policyObs

\* LeastResponseTime: the first loop
LeastResponseTimeScan(c) ==
    /\ Running /\ policy.kind = "LeastResponseTime" /\ loc[c].at = "locked" /\ spc[c] = "select"
    /\ IF Len(policy.servers) = 0
       THEN proc' = "panic" /\ loc' = loc
       ELSE /\ loc' = [loc EXCEPT ![c] = [at |-> "loop",
                         selected |-> LRTScan(policy.servers, policy.avgTime, 1, policy.servers[1]),
                         left |-> Len(policy.servers)]]
            /\ proc' = proc
    /\ UNCHANGED <<policyName, serversFlag, policy, mainpc, listener, acceptpc,
                   activeWG, spc, sbackend, c2b, b2c, ioErr, conn, backendConn, mu, now>>
    /\ UNCHANGED sessObs /\ UNCHANGED policyObs

\* LeastResponseTime: one iteration of the second loop, or its end
LeastResponseTimeLoop(c) ==
    /\ Running /\ policy.kind = "LeastResponseTime" /\ loc[c].at = "loop"
    /\ IF loc[c].left = 0
       THEN /\ loc' = [loc EXCEPT ![c].at = "push"]
            /\ policy' = policy
       ELSE LET nxt == (policy.current + 1) % Len(policy.servers)
            IN /\ policy' = [policy EXCEPT !.current = nxt]
               /\ loc' = [loc EXCEPT ![c] =
                            IF AvgEq(policy.avgTime[policy.servers[nxt + 1]],
                                     policy.avgTime[loc[c].selected])
                            THEN [@ EXCEPT !.at = "push", !.left = 0]
                            ELSE [@ EXCEPT !.left = @ - 1]]
    /\ UNCHANGED lockUnchanged
    /\ UNCHANGED <<spc, sbackend, mu, now, nSelect, nUpdate, pre>>
    /\ UNCHANGED policyObs

\* LeastResponseTime: now := time.Now() and the send to the channel
LeastResponseTimePush(c) ==
    /\ Running /\ policy.kind = "LeastResponseTime" /\ loc[c].at = "push"
    /\ \E t \in ClockReads(policy, 1, MaxProxyTime) :
          /\ now' = t
          /\ policy' = [policy EXCEPT
                           !.startTimes[policy.servers[policy.current + 1]] = Push(@, t)]
    /\ loc' = [loc EXCEPT ![c] = [at |-> "unlock"]]
    /\ UNCHANGED lockUnchanged
    /\ UNCHANGED <<spc, sbackend, mu, nSelect, nUpdate, pre>>
    /\ UNCHANGED policyObs

\* LeastResponseTime: p.mu.Unlock(), before the return statement
LeastResponseTimeUnlock(c) ==
    /\ Running /\ policy.kind = "LeastResponseTime" /\ loc[c].at = "unlock"
    /\ mu' = 0
    /\ loc' = [loc EXCEPT ![c] = [at |-> "unlocked"]]
    /\ UNCHANGED lockUnchanged
    /\ UNCHANGED <<policy, spc, sbackend, now, nSelect, nUpdate, pre>>
    /\ UNCHANGED policyObs

\* LeastResponseTime: return p.servers[p.current], read without the mutex
LeastResponseTimeReturn(c) ==
    /\ Running /\ policy.kind = "LeastResponseTime" /\ loc[c].at = "unlocked"
    /\ sbackend' = [sbackend EXCEPT ![c] = policy.servers[policy.current + 1]]
    /\ spc' = [spc EXCEPT ![c] = "dial"]
    /\ loc' = [loc EXCEPT ![c] = NoLocals]
    /\ UNCHANGED lockUnchanged
    /\ UNCHANGED <<policy, mu, now, nSelect, nUpdate, pre>>
    /\ UNCHANGED policyObs

\* net.Dial fails: the session is about to call policy.Update(backend)
LockDialFail(c) ==
    /\ Running /\ spc[c] = "dial"
    /\ spc' = [spc EXCEPT ![c] = "update"]
    /\ UNCHANGED lockUnchanged
    /\ UNCHANGED <<policy, sbackend, mu, loc, now, nSelect, nUpdate, pre>>
    /\ UNCHANGED policyObs

\* wg.Wait() returns: the session is about to call policy.Update(backend)
LockWait(c) ==
    /\ Running /\ spc[c] = "proxy" /\ c2b[c] = "end" /\ b2c[c] = "end"
    /\ spc' = [spc EXCEPT ![c] = "update"]
    /\ UNCHANGED lockUnchanged
    /\ UNCHANGED <<policy, sbackend, mu, loc, now, nSelect, nUpdate, pre>>
    /\ UNCHANGED policyObs

\* N2One.Update, RoundRobin.Update: empty bodies, no mutex
EmptyUpdate(c) ==
    /\ Running /\ spc[c] = "update" /\ policy.kind \in {"N2One", "RoundRobin"}
    /\ spc' = [spc EXCEPT ![c] = "finish"]
    /\ nUpdate' = [nUpdate EXCEPT ![c] = @ + 1]
    /\ UNCHANGED <<policyName, serversFlag, proc, mainpc, listener, acceptpc,
                   activeWG, c2b, b2c, ioErr, conn, backendConn, lateAccept>>
    /\ updArg' = [updArg EXCEPT ![c] = sbackend[c]]
    /\ UNCHANGED <<policy, sbackend, mu, loc, now, nSelect, pre>>
    /\ UNCHANGED policyObs

\* p.mu.Lock() at the head of LeastConnections.Update, LeastResponseTime.Update
LockUpdate(c) ==
    /\ Running /\ spc[c] = "update"
    /\ policy.kind \in {"LeastConnections", "LeastResponseTime"}
    /\ loc[c].at = "out"
    /\ mu = 0
    /\ mu' = c
    /\ loc' = [loc EXCEPT ![c] = [at |-> "update"]]
    /\ nUpdate' = [nUpdate EXCEPT ![c] = @ + 1]
    /\ pre' = [pre EXCEPT ![c] = policy]
    /\ UNCHANGED <<policyName, serversFlag, proc, mainpc, listener, acceptpc,
                   activeWG, c2b, b2c, ioErr, conn, backendConn, lateAccept>>
    /\ updArg' = [updArg EXCEPT ![c] = sbackend[c]]
    /\ UNCHANGED <<policy, spc, sbackend, now, nSelect>>
    /\ UNCHANGED policyObs

\* LeastConnections.Update: the test and the decrement
LeastConnectionsDecrement(c) ==
    /\ Running /\ policy.kind = "LeastConnections" /\ loc[c].at = "update"
    /\ policy' = LeastConnectionsUpdate(policy, sbackend[c])
    /\ loc' = [loc EXCEPT ![c] = [at |-> "updated"]]
    /\ UNCHANGED lockUnchanged
    /\ UNCHANGED <<spc, sbackend, mu, now, nSelect, nUpdate, pre>>
    /\ UNCHANGED policyObs

\* LeastResponseTime.Update: the map lookup and the receive from the channel
LeastResponseTimePop(c) ==
    /\ Running /\ policy.kind = "LeastResponseTime" /\ loc[c].at = "update"
    /\ IF sbackend[c] \notin DOMAIN policy.startTimes
       THEN policy' = policy /\ loc' = [loc EXCEPT ![c] = [at |-> "updated"]]
       ELSE IF policy.startTimes[sbackend[c]] = <<>>
            THEN policy' = policy /\ loc' = [loc EXCEPT ![c] = [at |-> "updated"]]
            ELSE /\ policy' = [policy EXCEPT !.startTimes[sbackend[c]] = Tail(@)]
                 /\ loc' = [loc EXCEPT ![c] =
                              [at |-> "popped", start |-> Head(policy.startTimes[sbackend[c]])]]
    /\ UNCHANGED lockUnchanged
    /\ UNCHANGED <<spc, sbackend, mu, now, nSelect, nUpdate, pre>>
    /\ UNCHANGED policyObs

\* LeastResponseTime.Update: time.Since(start), the append and the mean
LeastResponseTimeRecord(c) ==
    /\ Running /\ policy.kind = "LeastResponseTime" /\ loc[c].at = "popped"
    /\ \E t \in ClockReads(policy, 1, MaxProxyTime) :
          LET past == Append(policy.pastTimes[sbackend[c]], t - loc[c].start)
          IN /\ now' = t
             /\ policy' = [policy EXCEPT !.pastTimes[sbackend[c]] = past,
                                         !.avgTime[sbackend[c]] = Mean(past)]
    /\ loc' = [loc EXCEPT ![c] = [at |-> "updated"]]
    /\ UNCHANGED lockUnchanged
    /\ UNCHANGED <<spc, sbackend, mu, nSelect, nUpdate, pre>>
    /\ UNCHANGED policyObs

\* return of Update, the deferred Unlock
UnlockUpdate(c) ==
    /\ Running /\ loc[c].at = "updated"
    /\ mu' = 0
    /\ spc' = [spc EXCEPT ![c] = "finish"]
    /\ loc' = [loc EXCEPT ![c] = NoLocals]
    /\ UNCHANGED lockUnchanged
    /\ UNCHANGED <<policy, sbackend, now, nSelect, nUpdate, pre>>
    /\ UNCHANGED policyObs

InitLock ==
    /\ policy \in {NewN2One(servers), NewRoundRobin(servers),
                   NewLeastConnections(servers), NewLeastResponseTime(servers)}
    /\ policyName = policy.kind
    /\ serversFlag = <<>>
    /\ proc = "running"
    /\ mainpc = "waitsig"
    /\ listener = "open"
    /\ acceptpc = "run"
    /\ activeWG = MaxConns
    /\ spc = [c \in Conns |-> "select"]
    /\ sbackend = [c \in Conns |-> EmptyStr]
    /\ c2b = [c \in Conns |-> "idle"]
    /\ b2c = [c \in Conns |-> "idle"]
    /\ ioErr = 0
    /\ conn = [c \in Conns |-> "open"]
    /\ backendConn = [c \in Conns |-> "nil"]
    /\ mu = 0
    /\ loc = [c \in Conns |-> NoLocals]
    /\ now = 0
    /\ lateAccept = FALSE
    /\ nSelect = [c \in Conns |-> 0]
    /\ nUpdate = [c \in Conns |-> 0]
    /\ updArg = [c \in Conns |-> EmptyStr]
    /\ pre = [c \in Conns |-> NilPolicy]
    /\ nsel = 0
    /\ nupd = 0
    /\ lastRet = EmptyStr
    /\ selCount = <<>>
    /\ decCount = <<>>
    /\ lastArg = EmptyStr
    /\ scriptPos = -1
    /\ res = <<>>

NextLock ==
    \/ \E c \in Conns : N2OneSelect(c)
    \/ \E c \in Conns : LockSelect(c)
    \/ \E c \in Conns : RoundRobinRead(c)
    \/ \E c \in Conns : RoundRobinAdvance(c)
    \/ \E c \in Conns : LeastConnectionsScan(c)
    \/ \E c \in Conns : LeastConnectionsIncrement(c)
    \/ \E c \in Conns : UnlockSelect(c)
    \/ \E c \in Conns : LeastResponseTimeScan(c)
    \/ \E c \in Conns : LeastResponseTimeLoop(c)
    \/ \E c \in Conns : LeastResponseTimePush(c)
    \/ \E c \in Conns : LeastResponseTimeUnlock(c)
    \/ \E c \in Conns : LeastResponseTimeReturn(c)
    \/ \E c \in Conns : DialOK(c)
    \/ \E c \in Conns : LockDialFail(c)
    \/ \E c \in Conns : CopyClientToBackend(c)
    \/ \E c \in Conns : CopyBackendToClient(c)
    \/ \E c \in Conns : LockWait(c)
    \/ \E c \in Conns : EmptyUpdate(c)
    \/ \E c \in Conns : LockUpdate(c)
    \/ \E c \in Conns : LeastConnectionsDecrement(c)
    \/ \E c \in Conns : LeastResponseTimePop(c)
    \/ \E c \in Conns : LeastResponseTimeRecord(c)
    \/ \E c \in Conns : UnlockUpdate(c)
    \/ \E c \in Conns : HandleReturn(c)

SpecLock == InitLock /\ [][NextLock]_vars

----------------------------------------------------------------------------
\* Properties

Accepted(c) == spc[c] # "none"
\* the session took the dial-failure path and has made its Update
DialFailed(c) == spc[c] = "finish" /\ c2b[c] = "idle"

\* the -s value holds at least one character that is not white space
HasToken(flag) == \E i \in 1 .. Len(flag) : flag[i] # " "

\* C1 (for a process started with a non-empty pool, all of whose connections
\* were accepted before the signal was delivered): when main has logged
\* "Shutdown complete." and returned, every connection the accept loop
\* accepted has had its handler run to completion, its Update call included.
C1_DrainCorrectness ==
    (mainpc = "stopped" /\ HasToken(serversFlag) /\ ~lateAccept) =>
        \A c \in Conns : Accepted(c) => spc[c] = "done" /\ nUpdate[c] = 1

\* C2: a session never makes more than one SelectServer or more than one
\* Update; once it has left the proxying code (on the dial-failure path or
\* after both copies ended, each at end of stream or with an error) it has
\* made exactly one of each, and the Update was given the backend that its
\* SelectServer returned.
C2_SelectUpdatePairing ==
    \A c \in Conns :
        /\ nSelect[c] <= 1
        /\ nUpdate[c] <= 1
        /\ nUpdate[c] <= nSelect[c]
        /\ spc[c] \in {"finish", "done"} => nSelect[c] = 1 /\ nUpdate[c] = 1
        /\ spc[c] = "finish" => updArg[c] = sbackend[c]

\* one session has ended on the dial-failure path, another is ending after a
\* copy error
C2_Witness ==
    \E c, d \in Conns :
        /\ spc[c] = "done"
        /\ spc[d] = "finish" /\ c2b[d] = "end" /\ b2c[d] = "end" /\ ioErr = d
        /\ nUpdate[c] = 1 /\ nUpdate[d] = 1

\* the step in which session c makes its compensating Update after a failed
\* dial, no other session having called the policy since c's SelectServer
CompensatingUpdate(c) ==
    /\ spc[c] = "dial"
    /\ spc'[c] = "finish"
    /\ c2b[c] = "idle"
    /\ pre[c] # NilPolicy

\* C3 as stated: after the compensating Update of a session whose dial failed,
\* with no other session's call in between, the policy is what it was
\* just before the session's SelectServer.
C3_StateRestored ==
    [][\A c \in Conns : CompensatingUpdate(c) => policy' = pre[c]]_vars

\* C3 amended: under the same conditions, LeastConnections has every backend's
\* count back at its value before the SelectServer and N2One is unchanged;
\* RoundRobin keeps its cursor advanced by one position and LeastResponseTime
\* has one more sample in the history of the selected backend.
C3_CountsRestored ==
    [][\A c \in Conns : CompensatingUpdate(c) =>
          /\ policy'.kind = pre[c].kind
          /\ policy'.servers = pre[c].servers
          /\ policy.kind = "N2One" => policy' = pre[c]
          /\ policy.kind = "LeastConnections" =>
                \A b \in DOMAIN policy'.connections \cup DOMAIN pre[c].connections :
                    Get(policy'.connections, b) = Get(pre[c].connections, b)
          /\ policy.kind = "RoundRobin" =>
                policy'.idx = (pre[c].idx + 1) % Len(pre[c].servers)
          /\ policy.kind = "LeastResponseTime" =>
                Len(policy'.pastTimes[sbackend[c]]) =
                    Len(pre[c].pastTimes[sbackend[c]]) + 1]_vars

\* a LeastConnections session has compensated a failed dial while another
\* session, which selected earlier, is still proxied
C3_Witness ==
    /\ policy.kind = "LeastConnections"
    /\ \E c, d \in Conns :
          /\ DialFailed(c)
          /\ spc[d] = "proxy"
          /\ policy.connections[updArg[c]] = 0
          /\ policy.connections[sbackend[d]] = 1

\* C4: under LeastConnections every backend's count is the number of
\* selections that returned it minus the number of Update calls made on it
\* while its count was positive, and is never negative (so an Update at count
\* 0 leaves 0).
C4_LeastConnectionsCounter ==
    policy.kind = "LeastConnections" =>
        \A b \in DOMAIN policy.connections :
            /\ policy.connections[b] = Get(selCount, b) - Get(decCount, b)
            /\ policy.connections[b] >= 0

\* a backend selected twice and released twice, with more Update calls made
\* than counted decrements
C4_Witness ==
    /\ policy.kind = "LeastConnections"
    /\ Len(policy.servers) = 1
    /\ \E b \in DOMAIN policy.connections :
          /\ Get(selCount, b) = 2
          /\ Get(decCount, b) = 2
          /\ nupd > 2

\* C5: under RoundRobin the k-th SelectServer (k = 0, 1, ...) returns the
\* backend at pool index k mod N whatever Update calls are interleaved, and
\* the cursor stays within 0 .. N-1.
C5_RoundRobinDeterminism ==
    policy.kind = "RoundRobin" =>
        LET N == Len(policy.servers)
        IN /\ 0 <= policy.idx /\ policy.idx < N
           /\ policy.idx = nsel % N
           /\ nsel > 0 => lastRet = policy.servers[((nsel - 1) % N) + 1]

\* two full rounds over a pool of several backends, with Update calls made
C5_Witness ==
    /\ policy.kind = "RoundRobin"
    /\ Len(policy.servers) >= 3
    /\ nsel >= 2 * Len(policy.servers)
    /\ nupd >= 2

\* C6: under N2One every SelectServer returns the first backend of the pool,
\* whatever calls were made before.
C6_N2OneInvariance ==
    policy.kind = "N2One" /\ nsel > 0 => lastRet = policy.servers[1]

\* selections and Update calls made on a pool of several backends
C6_Witness ==
    /\ policy.kind = "N2One"
    /\ Len(policy.servers) >= 2
    /\ nsel >= 3
    /\ nupd >= 3

\* the lowest pool index among the backends whose count is minimal
LowestMinimal(p) ==
    CHOOSE i \in 1 .. Len(p.servers) :
        /\ \A j \in 1 .. Len(p.servers) :
              p.connections[p.servers[i]] <= p.connections[p.servers[j]]
        /\ \A j \in 1 .. (i - 1) :
              p.connections[p.servers[j]] > p.connections[p.servers[i]]

LeastConnectionsExpected ==
    << <<"0">>, <<"1">>, <<"2">>, <<"3">>, <<"0">>, <<"0">>, <<"3">>, <<"2">> >>

\* C7: a LeastConnections SelectServer returns the backend of lowest pool index
\* among those of minimal count and adds one to that backend's count only; the
\* test script on the four servers yields [b0, b1, b2, b3, b0, b0, b3, b2].
C7_LeastConnectionsSelection ==
    [][/\ (policy.kind = "LeastConnections" /\ nsel' = nsel + 1) =>
             LET b == policy.servers[LowestMinimal(policy)]
             IN /\ lastRet' = b
                /\ policy'.connections =
                      [policy.connections EXCEPT ![b] = @ + 1]
                /\ policy'.servers = policy.servers
       /\ (policy.kind = "LeastConnections" /\ scriptPos' = Len(TestScript)
              /\ policy.servers = servers) =>
             res' = LeastConnectionsExpected]_vars

\* the test script has been replayed to its end on the four servers
C7_Witness ==
    /\ policy.kind = "LeastConnections"
    /\ policy.servers = servers
    /\ scriptPos = Len(TestScript)
    /\ nsel = 8

\* the mean of s is minimal over the pool
IsMinimalMean(p, s) ==
    \A x \in Range(p.servers) :
        p.avgTime[s].num * p.avgTime[x].den <= p.avgTime[x].num * p.avgTime[s].den

\* cursor positions visited when advancing k = 1, 2, ... steps with wrap-around
CursorAfter(p, k) == (p.current + k) % Len(p.servers)

\* C8: a LeastResponseTime SelectServer returns the first backend of minimal
\* mean met when advancing the cursor one position at a time, with wrap-around,
\* from the position after the current one (position 0 on the first call); the
\* cursor is left on it and the time read is pushed at the tail of its channel
\* and of no other.
C8_LeastResponseTimeSelection ==
    [][(policy.kind = "LeastResponseTime" /\ nsel' = nsel + 1) =>
          LET N == Len(policy.servers)
              k == CHOOSE k \in 1 .. N :
                      /\ IsMinimalMean(policy, policy.servers[CursorAfter(policy, k) + 1])
                      /\ \A j \in 1 .. (k - 1) :
                            ~IsMinimalMean(policy, policy.servers[CursorAfter(policy, j) + 1])
              b == policy.servers[CursorAfter(policy, k) + 1]
          IN /\ lastRet' = b
             /\ IsMinimalMean(policy, lastRet')
             /\ policy'.current = CursorAfter(policy, k)
             /\ nsel = 0 => policy.current + 1 = 0
             /\ Len(policy'.startTimes[b]) > 0
             /\ policy'.startTimes[b][Len(policy'.startTimes[b])] = now'
             /\ Len(policy.startTimes[b]) < FifoCap =>
                   policy'.startTimes[b] = Append(policy.startTimes[b], now')
             /\ \A s \in DOMAIN policy.startTimes \ {b} :
                   policy'.startTimes[s] = policy.startTimes[s]
             /\ policy'.avgTime = policy.avgTime
             /\ policy'.pastTimes = policy.pastTimes]_vars

\* a selection that skipped a backend of larger mean and wrapped around
C8_Witness ==
    /\ policy.kind = "LeastResponseTime"
    /\ Len(policy.servers) >= 3
    /\ nsel >= 3
    /\ policy.current = 1
    /\ lastRet = policy.servers[2]
    /\ policy.avgTime[policy.servers[1]].num > 0
    /\ policy.avgTime[policy.servers[3]].num > 0

LeastResponseTimeExpected ==
    << <<"0">>, <<"1">>, <<"2">>, <<"3">>, <<"0">>, <<"1">>, <<"2">>, <<"1">> >>

\* C9: the test script on LeastResponseTime over the four servers, time
\* advancing between iterations, yields [b0, b1, b2, b3, b0, b1, b2, b1].
C9_LeastResponseTimeScenario ==
    (policy.kind = "LeastResponseTime" /\ nsel = 8) => res = LeastResponseTimeExpected

\* the script has been replayed to its end, the last Update included
C9_Witness ==
    /\ policy.kind = "LeastResponseTime"
    /\ scriptPos = Len(TestScript)
    /\ nsel = 8 /\ nupd = 4

\* C10: the listener is opened only if -a names one of the four policies and
\* -s holds at least one backend token, so no session ever calls SelectServer
\* on an empty pool.
C10_StartupValidation ==
    /\ listener # "none" => policyName \in PolicyNames /\ HasToken(serversFlag)
    /\ \A c \in Conns : nSelect[c] > 0 => Len(policy.servers) > 0

\* C11: an Update whose argument is not a backend of the pool returns normally
\* and leaves the whole policy as it was (cursor, counts, channels, histories
\* and means), for each of the four policies and however often it is repeated.
C11_InvalidUpdateNoOp ==
    [][(nupd' = nupd + 1 /\ lastArg' \notin Range(policy.servers)) =>
          policy' = policy]_vars

\* LeastResponseTime with a pending start time and a recorded sample has been
\* given a server that is not in its pool, twice at least
C11_Witness ==
    /\ policy.kind = "LeastResponseTime"
    /\ lastArg # EmptyStr /\ lastArg \notin Range(policy.servers)
    /\ nupd >= 3
    /\ \E s \in Range(policy.servers) :
          policy.startTimes[s] # <<>> /\ policy.pastTimes[s] # <<>>

\* the orchestrator's phase
Phase ==
    CASE mainpc = "start" -> "Starting"
      [] mainpc = "waitsig" -> "Accepting"
      [] mainpc \in {"closing", "waitaccept", "waitwg"} -> "Draining"
      [] mainpc = "stopped" -> "Stopped"
      [] OTHER -> "none"

\* C12: main moves only Accepting -> Draining -> Stopped, and within Draining
\* only from the receipt of the signal to the closed listener, then to the
\* observed exit of the accept loop, then to the in-flight wait; Stopped is
\* entered only from that wait, with the accept loop exited and the counter at
\* 0; a closed listener and an exited accept loop stay so.
C12_ShutdownOrdering ==
    [][/\ mainpc' # mainpc =>
             <<mainpc, mainpc'>> \in {<<"start", "waitsig">>,
                                      <<"waitsig", "closing">>,
                                      <<"closing", "waitaccept">>,
                                      <<"waitaccept", "waitwg">>,
                                      <<"waitwg", "stopped">>}
       /\ mainpc' \in {"waitaccept", "waitwg", "stopped"} => listener' = "closed"
       /\ mainpc' \in {"waitwg", "stopped"} => acceptpc' = "exited"
       /\ (mainpc' = "stopped" /\ mainpc # "stopped") =>
             Phase = "Draining" /\ acceptpc = "exited" /\ activeWG = 0
       /\ listener = "closed" => listener' = "closed"
       /\ acceptpc = "exited" => acceptpc' = "exited"]_vars

\* main has stopped after sessions ran to their end
C12_Witness ==
    /\ Phase = "Stopped"
    /\ listener = "closed" /\ acceptpc = "exited"
    /\ \A c \in Conns : spc[c] = "done"

\* the step in which the accept loop accepts connection c and spawns its session
Accepts(c) == spc[c] = "none" /\ spc'[c] # "none"

C14_InFlightAccounting ==
    /\ activeWG = Cardinality({c \in Conns : spc[c] \notin {"none", "done"}})
    /\ activeWG >= 0

\* the step in which session c's dial fails
DialFails(c) == spc[c] = "dial" /\ spc'[c] # "dial" /\ backendConn'[c] = "nil"

\* C15: a session whose dial fails starts no copy goroutine and has no backend
\* connection, makes no second SelectServer and no second dial, and its next
\* step is its return, which closes the client connection; the failure changes
\* neither main's position, the listener, the accept loop and the in-flight
\* counter nor any other session.
C15_DialFailureHandling ==
    [][\A c \in Conns :
          /\ nSelect'[c] <= 1
          /\ DialFails(c) =>
                /\ spc'[c] = "finish"
                /\ c2b'[c] = "idle" /\ b2c'[c] = "idle"
                /\ nSelect'[c] = 1 /\ nUpdate'[c] = 1
                /\ conn'[c] = "open"
                /\ <<mainpc', listener', acceptpc', activeWG', proc'>> =
                      <<mainpc, listener, acceptpc, activeWG, proc>>
                /\ \A d \in Conns \ {c} :
                      <<spc'[d], sbackend'[d], c2b'[d], b2c'[d], conn'[d], backendConn'[d]>> =
                         <<spc[d], sbackend[d], c2b[d], b2c[d], conn[d], backendConn[d]>>
          /\ (DialFailed(c) /\ spc'[c] # spc[c]) =>
                /\ spc'[c] = "done"
                /\ conn'[c] = "closed"
                /\ c2b'[c] = "idle" /\ b2c'[c] = "idle" /\ backendConn'[c] = "nil"
                /\ nSelect'[c] = 1]_vars

\* a session's dial has failed and it has made its Update, its client
\* connection not yet closed, while another session is proxied and main is
\* draining
C15_Witness ==
    \E c, d \in Conns :
        /\ DialFailed(c)
        /\ conn[c] = "open" /\ backendConn[c] = "nil"
        /\ nSelect[c] = 1 /\ nUpdate[c] = 1
        /\ spc[d] = "proxy" /\ c2b[d] = "run" /\ b2c[d] = "run"
        /\ Phase = "Draining"

\* C16: after a successful dial the session's Update is made with both copy
\* goroutines ended and both sockets open; the sockets are closed only after
\* it; the end of one copy, with or without an error, leaves the other copy
\* as it is, and once both have ended the session's next step is its Update.
C16_CompletionAccounting ==
    [][\A c \in Conns :
          /\ (nUpdate'[c] = nUpdate[c] + 1 /\ backendConn[c] = "open") =>
                /\ c2b[c] = "end" /\ b2c[c] = "end"
                /\ conn'[c] = "open" /\ backendConn'[c] = "open"
          /\ (conn[c] = "open" /\ conn'[c] = "closed") => nUpdate[c] = 1
          /\ (backendConn[c] = "open" /\ backendConn'[c] # "open") => nUpdate[c] = 1
          /\ (c2b[c] = "run" /\ c2b'[c] = "end") =>
                b2c'[c] = b2c[c] /\ spc'[c] = "proxy"
          /\ (b2c[c] = "run" /\ b2c'[c] = "end") =>
                c2b'[c] = c2b[c] /\ spc'[c] = "proxy"
          /\ (spc[c] = "proxy" /\ c2b[c] = "end" /\ b2c[c] = "end" /\ spc'[c] # spc[c]) =>
                nUpdate'[c] = nUpdate[c] + 1 /\ updArg'[c] = sbackend[c]]_vars

\* a session has made its Update, its sockets still open, after one of its
\* copies returned an error
C16_Witness ==
    \E c \in Conns :
        /\ ioErr = c
        /\ spc[c] = "finish" /\ nUpdate[c] = 1
        /\ conn[c] = "open" /\ backendConn[c] = "open"

\* C17: a LeastResponseTime Update(b) on a backend of the pool whose channel
\* holds a start time removes the oldest one, appends the time elapsed since
\* it to b's history and sets b's mean to the arithmetic mean of that history,
\* leaving the cursor and every other backend as they were; with an empty
\* channel it changes nothing.
C17_LeastResponseTimeUpdate ==
    [][(policy.kind = "LeastResponseTime" /\ nupd' = nupd + 1
            /\ lastArg' \in Range(policy.servers)) =>
          LET b == lastArg'
              fifo == policy.startTimes[b]
              hist == policy'.pastTimes[b]
          IN IF fifo = <<>>
             THEN policy' = policy
             ELSE /\ policy'.startTimes[b] = Tail(fifo)
                  /\ hist = Append(policy.pastTimes[b], now' - Head(fifo))
                  /\ Len(hist) = Len(policy.pastTimes[b]) + 1
                  /\ policy'.avgTime[b].num * Len(hist) =
                        SumSeq(hist) * policy'.avgTime[b].den
                  /\ policy'.avgTime[b].den > 0
                  /\ \A s \in Range(policy.servers) \ {b} :
                        /\ policy'.startTimes[s] = policy.startTimes[s]
                        /\ policy'.pastTimes[s] = policy.pastTimes[s]
                        /\ policy'.avgTime[s] = policy.avgTime[s]
                  /\ policy'.current = policy.current
                  /\ policy'.servers = policy.servers]_vars

\* an Update has recorded a second sample, different from the first, taken
\* from a channel that held two different start times
C17_Witness ==
    /\ policy.kind = "LeastResponseTime"
    /\ lastArg \in Range(policy.servers)
    /\ policy.pastTimes[lastArg] = <<2, 0>>
    /\ policy.avgTime[lastArg] = [num |-> 2, den |-> 2]
    /\ Len(policy.servers) >= 2

\* the second send of SelectServer, made after one receive from a full
\* channel, would find the channel still full
SendBlocks(ch) ==
    Len(ch) >= FifoCap /\ Len(IF ch # <<>> THEN Tail(ch) ELSE ch) >= FifoCap

\* C18: no channel of pending start times ever holds more than its capacity;
\* a SelectServer on a backend whose channel is full drops the oldest entry
\* and puts the time read at the tail, one that is not full gets it appended,
\* and in neither case does the send block.
C18_FifoBound ==
    [][policy.kind = "LeastResponseTime" =>
          /\ \A s \in Range(policy.servers) :
                /\ Len(policy.startTimes[s]) <= FifoCap
                /\ Len(policy'.startTimes[s]) <= FifoCap
                /\ ~SendBlocks(policy.startTimes[s])
          /\ nsel' = nsel + 1 =>
                LET fifo == policy.startTimes[lastRet']
                IN policy'.startTimes[lastRet'] =
                      IF Len(fifo) = FifoCap
                      THEN Append(Tail(fifo), now')
                      ELSE Append(fifo, now')]_vars

\* a backend selected more often than its channel holds, without any Update:
\* the channel is full and its oldest start time is gone
C18_Witness ==
    /\ policy.kind = "LeastResponseTime"
    /\ nupd = 0
    /\ \E b \in Range(policy.servers) :
          /\ Get(selCount, b) > FifoCap
          /\ Len(policy.startTimes[b]) = FifoCap
          /\ policy.startTimes[b][1] > 0
          /\ policy.startTimes[b][FifoCap] > policy.startTimes[b][1]

\* at most one goroutine is between a Lock and the matching Unlock, and it is
\* the holder of the mutex
MutualExclusion ==
    /\ Cardinality(InCriticalSection) <= 1
    /\ InCriticalSection = IF mu = 0 THEN {} ELSE {mu}

\* a session that is not inside a policy call (it dials, copies, waits for
\* its copies, is about to call, or has returned) does not hold the mutex
NoLockOutsideCalls ==
    \A c \in Conns :
        (spc[c] \in {"dial", "proxy", "finish", "done"} \/ loc[c].at = "out") => mu # c

\* the steps in which session c releases the mutex and in which its
\* SelectServer returns
ReleasesIn(c, call) == mu = c /\ mu' = 0 /\ spc[c] = call
SelectReturns(c) == spc[c] = "select" /\ spc'[c] = "dial"

\* when a call releases the mutex the policy is what the whole call, applied
\* to the policy as it was when the mutex was taken, makes of it
AtomicMutation ==
    \A c \in Conns :
        /\ ReleasesIn(c, "select") => policy' = SelectServer(pre[c], now).policy
        /\ ReleasesIn(c, "update") => policy' = Update(pre[c], sbackend[c], now)

\* the backend a SelectServer returns is the one the call selected with the
\* mutex held
AtomicSelection ==
    \A c \in Conns :
        (SelectReturns(c) /\ HasMutex(policy)) =>
            sbackend'[c] = SelectServer(pre[c], now).ret

\* C19: the calls on a policy exclude each other, the mutex is held only
\* inside them and released when they return, and each SelectServer and
\* Update takes effect as one step: the policy after the call and the backend
\* returned are those of the call applied to the policy found at the Lock.
C19_PolicyMutualExclusion ==
    [][/\ MutualExclusion /\ MutualExclusion'
       /\ NoLockOutsideCalls /\ NoLockOutsideCalls'
       /\ AtomicMutation
       /\ AtomicSelection]_vars

\* the same without the backend returned
C19_LockDiscipline ==
    [][/\ MutualExclusion /\ MutualExclusion'
       /\ NoLockOutsideCalls /\ NoLockOutsideCalls'
       /\ AtomicMutation]_vars

\* once main has received the signal, the accept loop eventually exits and
\* main eventually stops, unless a session's SelectServer panics
ShutdownCompletes ==
    /\ (mainpc = "closing") ~> (acceptpc = "exited" \/ proc = "panic")
    /\ (mainpc = "closing") ~> (mainpc = "stopped" \/ proc = "panic")

\* main is never stopped while a session spawned before the signal has not
\* ended
NoStopBeforeDrained ==
    [](mainpc = "stopped" /\ ~lateAccept =>
          \A c \in Conns : Accepted(c) => spc[c] = "done")

\* main is never stopped while a session that has begun to run has not ended
NoStopWhileRunning ==
    [](mainpc = "stopped" =>
          \A c \in Conns : spc[c] \in {"none", "spawned", "done"})

\* C20: under fair scheduling, with every dial returning and every copy
\* ending, the receipt of the signal leads to the exit of the accept loop and
\* to Stopped; and Stopped is never reached while a session spawned before the
\* signal has not ended.
C20_ShutdownLiveness ==
    ShutdownCompletes /\ NoStopBeforeDrained

\* the return of the n-th SelectServer (n = 1, 2, ...) made on the RoundRobin p
RECURSIVE RoundRobinNth(_, _)
RoundRobinNth(p, n) ==
    LET r == RoundRobinSelectServer(p)
    IN IF n <= 1 THEN r.ret ELSE RoundRobinNth(r.policy, n - 1)

\* no address occurs twice in the pool
DistinctPool(srv) ==
    \A i, j \in 1 .. Len(srv) : i # j => srv[i] # srv[j]

\* C21 as stated: on a freshly built LeastConnections or LeastResponseTime,
\* over any pool, the n-th of n serialized SelectServer calls with no Update
\* returns what the n-th SelectServer of a fresh RoundRobin over the same pool
\* returns.
C21_RoundRobinEquivalence ==
    (/\ policy.kind \in {"LeastConnections", "LeastResponseTime"}
     /\ nupd = 0
     /\ nsel > 0) =>
        lastRet = RoundRobinNth(NewRoundRobin(policy.servers), nsel)

\* C21 amended: the same for LeastResponseTime over any pool, and for
\* LeastConnections over a pool in which no address occurs twice (the counts
\* are kept per address, so an address listed twice is one backend to
\* LeastConnections and two positions to RoundRobin).
C21_DistinctPoolEquivalence ==
    (/\ policy.kind \in {"LeastConnections", "LeastResponseTime"}
     /\ policy.kind = "LeastConnections" => DistinctPool(policy.servers)
     /\ nupd = 0
     /\ nsel > 0) =>
        lastRet = RoundRobinNth(NewRoundRobin(policy.servers), nsel)

\* LeastConnections has gone once round a pool of three distinct backends or
\* more and is on its second round, no Update made
C21_Witness ==
    /\ policy.kind = "LeastConnections"
    /\ Len(policy.servers) >= 3
    /\ DistinctPool(policy.servers)
    /\ nupd = 0
    /\ nsel = Len(policy.servers) + 2
    /\ lastRet = policy.servers[2]

\* the sessions whose SelectServer has returned b and that have not called
\* Update
SelectedNotUpdated(b) ==
    {c \in Conns : nSelect[c] = 1 /\ nUpdate[c] = 0 /\ sbackend[c] = b}

\* C22: under LeastConnections driven by the sessions, every backend's count
\* is the number of sessions that have selected it and not yet called Update;
\* so the backend of such a session has a positive count (the guard of Update
\* lets its decrement through), and every count is 0 when no session is
\* between its selection and its Update.
C22_LeastConnectionsSessions ==
    (policy.kind = "LeastConnections" /\ proc # "test") =>
        /\ \A b \in DOMAIN policy.connections :
              policy.connections[b] = Cardinality(SelectedNotUpdated(b))
        /\ \A c \in Conns :
              (nSelect[c] = 1 /\ nUpdate[c] = 0) =>
                 /\ sbackend[c] \in DOMAIN policy.connections
                 /\ policy.connections[sbackend[c]] > 0
        /\ (\A c \in Conns : spc[c] \in {"none", "spawned", "select", "finish", "done"}) =>
              \A b \in DOMAIN policy.connections : policy.connections[b] = 0

\* one session has ended after its Update while another one is proxying to
\* the backend the first one had, whose count is 1
C22_Witness ==
    /\ policy.kind = "LeastConnections"
    /\ Len(policy.servers) >= 2
    /\ spc[1] = "done" /\ nSelect[1] = 1 /\ nUpdate[1] = 1
    /\ spc[2] = "proxy" /\ nUpdate[2] = 0
    /\ sbackend[2] = policy.servers[1]
    /\ policy.connections[policy.servers[1]] = 1
    /\ policy.connections[policy.servers[2]] = 0

\* C23: under LeastResponseTime driven by the sessions (never more of them on
\* a backend than the capacity of its channel), while no SelectServer is in
\* progress the length of every backend's channel is the number of sessions
\* that have selected it and not yet called Update, so the backend of such a
\* session has a start time for its Update to pop.
C23_FifoSessions ==
    (/\ policy.kind = "LeastResponseTime"
     /\ proc # "test"
     /\ \A c \in Conns : spc[c] # "selret") =>
        /\ \A b \in DOMAIN policy.startTimes :
              Len(policy.startTimes[b]) = Cardinality(SelectedNotUpdated(b))
        /\ \A c \in Conns :
              (nSelect[c] = 1 /\ nUpdate[c] = 0 /\ proc # "panic") =>
                 /\ sbackend[c] \in DOMAIN policy.startTimes
                 /\ policy.startTimes[sbackend[c]] # <<>>

\* the next step of session c's goroutine, whichever it is
SessionStep(c) ==
    \/ HandleAdd(c)
    \/ HandleSelect(c)
    \/ HandleSelectReturn(c)
    \/ DialOK(c)
    \/ DialFail(c)
    \/ CopyClientToBackend(c)
    \/ CopyBackendToClient(c)
    \/ HandleUpdate(c)
    \/ HandleReturn(c)

\* l.Accept() has returned an error and main has not received the signal
AcceptFailedBeforeSignal == acceptpc = "exited" /\ mainpc = "waitsig"

\* C24: the step in which l.Accept() fails before the signal changes nothing
\* of main, of the listener, of the policy or of any session.  From then on
\* the accept loop stays exited and no connection is accepted; until main
\* receives the signal it stays at <-sig with the listener open, the process
\* does not exit (short of a SelectServer panic of a session), and every
\* session that has not ended can take its next step.
C24_AcceptError ==
    [][/\ (acceptpc = "run" /\ acceptpc' = "exited" /\ mainpc = "waitsig") =>
             /\ mainpc' = "waitsig"
             /\ UNCHANGED <<proc, listener, policy, activeWG, spc, sbackend,
                            c2b, b2c, conn, backendConn>>
       /\ acceptpc = "exited" =>
             /\ acceptpc' = "exited"
             /\ \A c \in Conns : ~Accepts(c) /\ (conn[c] = "none" => conn'[c] = "none")
       /\ AcceptFailedBeforeSignal =>
             /\ mainpc' \in {"waitsig", "closing"}
             /\ listener = "open" /\ listener' = "open"
             /\ proc' \in {"running", "panic"}
             /\ activeWG' >= 0
             /\ Running =>
                   \A c \in Conns :
                      spc[c] \notin {"none", "done"} => ENABLED SessionStep(c)]_vars

\* l.Accept() failed with the listener open and no signal received: one
\* session has since run to its end, another is still proxying, and the
\* process is running
C24_Witness ==
    /\ AcceptFailedBeforeSignal
    /\ listener = "open"
    /\ Running
    /\ spc[1] = "done"
    /\ spc[2] = "proxy" /\ c2b[2] = "end" /\ b2c[2] = "run"

====
